---- MODULE Spec2Model ----
(***************************************************************************)
(* Model of application/backend/ai_model/ai_transcriptionv2.py:            *)
(*   - the recording session: the PortAudio callback (audio_callback), the *)
(*     /record/start and /record/stop handlers of TranscriptionHandler,    *)
(*     the shared recording_event, audio_lock, audio_chunks, audio_stream; *)
(*   - transcribe_audio and _recognize_chunk (windowed recognition).       *)
(* Every Python statement that reads or writes shared state is one step.   *)
(***************************************************************************)
EXTENDS Integers, Sequences, FiniteSets, TLC

\* ------------------------------------------------------------------------
\* Bounds of the model
\* ------------------------------------------------------------------------

\* Frames the audio hardware delivers to audio_callback in one run.
MaxFrames == 3

\* HTTP requests (/record/start, /record/stop) accepted in one run.
MaxCommands == 4

\* Request-handling threads of ThreadingHTTPServer (one per request in flight).
CmdThreads == {"h1", "h2"}

\* The thread PortAudio runs audio_callback on.
Producer == "cb"

VARIABLES
    recording_event,  \* threading.Event: TRUE iff set
    audio_lock,       \* "free" or the thread holding the threading.Lock
    audio_chunks,     \* the shared list of frames
    audio_stream,     \* "none" or "started" (sd.InputStream)
    streams_opened,   \* how many InputStreams ensure_stream has created
    serving,          \* TRUE once run_server is in serve_forever
    cb_pc,            \* position of audio_callback
    indata,           \* the frame the running callback holds
    delivered,        \* number of callback invocations so far
    pc,               \* position of each request thread in do_POST
    chunks,           \* do_POST local `chunks` of each request thread
    resp,             \* last response each request thread sent
    ncommands,        \* requests accepted so far
    returned,         \* history: every frame a /record/stop drained, in order
    quietAtCall,      \* history: the stop arrived with the event clear and no other request in flight
    noStartSince,     \* history: no /record/start was in flight at or after the stop's arrival
    stream_missing    \* what each request thread's test of line 73 found

recVars == <<recording_event, audio_lock, audio_chunks, audio_stream,
             streams_opened, serving, cb_pc, indata, delivered, pc, chunks,
             resp, ncommands, returned, quietAtCall, noStartSince,
             stream_missing>>

VARIABLES
    tr_pc,             \* position in transcribe_audio
    tr_n,              \* samples.shape[0]
    tr_rate,           \* RATE
    tr_secs,           \* TRANSCRIPTION_CHUNK_SECONDS
    tr_start,          \* loop variable `start` of line 147
    transcript_parts,  \* transcribe_audio local (line 145)
    language,          \* transcribe_audio local (line 146)
    tr_out,            \* the dict transcribe_audio returns
    tr_calls,          \* history: the sample window [lo, hi) of every recognition call
    tr_results,        \* history: what _recognize_chunk returned for every window
    tr_failed,         \* history: a recognition call has raised
    tr_resp            \* what /record/stop answers after this call (lines 442-456)

trVars == <<tr_pc, tr_n, tr_rate, tr_secs, tr_start, transcript_parts,
            language, tr_out, tr_calls, tr_results, tr_failed, tr_resp>>

VARIABLES
    sp_pc,         \* position in _split_transcript
    sp_text,       \* argument `text`
    sp_max,        \* argument `max_chars`
    sp_sentences,  \* the sentences the loop of line 202 has still to visit
    sp_chunks,     \* local `chunks`
    current,       \* local `current`
    current_len,   \* local `current_len`
    sp_out         \* the list _split_transcript returns

spVars == <<sp_pc, sp_text, sp_max, sp_sentences, sp_chunks, current,
            current_len, sp_out>>

VARIABLES
    su_pc,            \* position in summarize_transcript and the /summarize handler
    su_transcript,    \* argument `transcript`
    su_key,           \* whether SUMMARY_API_KEY is set
    su_distinct,      \* SUMMARY_FALLBACK_MODEL is set and differs from SUMMARY_MODEL
    su_chunk_chars,   \* SUMMARY_CHUNK_CHARS
    su_text,          \* local `text`
    su_chunks,        \* local `chunks`
    su_idx,           \* local `idx`
    chunk_summaries,  \* local `chunk_summaries`
    su_prompt,        \* what the final prompt is written over: the text or the notes
    summary,          \* the value summarize_transcript returns
    su_error,         \* the exception summarize_transcript raised, "" if none
    su_calls,         \* history: the generation calls issued
    su_all_empty,     \* history: every generation call so far returned no text
    su_log,           \* history: the generation calls in the order issued
    su_resp           \* the response of the /summarize handler

suVars == <<su_pc, su_transcript, su_key, su_distinct, su_chunk_chars, su_text,
            su_chunks, su_idx, chunk_summaries, su_prompt, summary, su_error,
            su_calls, su_all_empty, su_log, su_resp>>

VARIABLES
    ti_pc,          \* position in generate_title and the handler calling it
    ti_handler,     \* the handler calling generate_title: "/title" or "/record/stop"
    ti_transcript,  \* argument `transcript`
    ti_key,         \* whether SUMMARY_API_KEY is set
    ti_distinct,    \* TITLE_FALLBACK_MODEL is set and differs from TITLE_MODEL
    title,          \* the value generate_title returns
    ti_error,       \* the exception generate_title raised, "" if none
    ti_calls,       \* history: the generation calls issued
    ti_text,        \* history: the model result the title was made of, if any
    ti_resp         \* the response of the handler

tiVars == <<ti_pc, ti_handler, ti_transcript, ti_key, ti_distinct, title,
            ti_error, ti_calls, ti_text, ti_resp>>

vars == <<recVars, trVars, spVars, suVars, tiVars>>

\* What the recording session leaves alone, and what transcribe_audio does.
nonRecVars == <<trVars, spVars, suVars, tiVars>>
nonTrVars == <<recVars, spVars, suVars, tiVars>>
nonSpVars == <<recVars, trVars, suVars, tiVars>>
nonSuVars == <<recVars, trVars, spVars, tiVars>>
nonTiVars == <<recVars, trVars, spVars, suVars>>

\* ------------------------------------------------------------------------
\* Helpers
\* ------------------------------------------------------------------------

Range(s) == {s[i] : i \in 1..Len(s)}

StartPcs == {"start_ensure", "start_create", "start_lock", "start_clear", "start_set", "start_respond"}

\* Positions of /record/stop after recording_event.clear() and before the
\* `with audio_lock` block has been left.
StopDrainPcs == {"stop_lock", "stop_copy", "stop_clear"}

\* Positions of /record/stop after the `with audio_lock` block.
StopAfterDrainPcs == {"stop_check", "stop_transcribe", "stop_respond"}

StopPcs == {"stop_event"} \cup StopDrainPcs \cup StopAfterDrainPcs

\* ------------------------------------------------------------------------
\* Initial state: module import (lines 57-60), before run_server
\* ------------------------------------------------------------------------

RecInit ==
    /\ recording_event = FALSE
    /\ audio_lock = "free"
    /\ audio_chunks = <<>>
    /\ audio_stream = "none"
    /\ streams_opened = 0
    /\ serving = FALSE
    /\ cb_pc = "wait"
    /\ indata = 0
    /\ delivered = 0
    /\ pc = [t \in CmdThreads |-> "idle"]
    /\ chunks = [t \in CmdThreads |-> <<>>]
    /\ resp = [t \in CmdThreads |-> "none"]
    /\ ncommands = 0
    /\ returned = <<>>
    /\ quietAtCall = [t \in CmdThreads |-> FALSE]
    /\ noStartSince = [t \in CmdThreads |-> FALSE]
    /\ stream_missing = [t \in CmdThreads |-> FALSE]

\* ------------------------------------------------------------------------
\* ensure_stream and run_server
\* ------------------------------------------------------------------------

\* ensure_stream: create and start the input stream if there is none.
ensure_stream ==
    IF audio_stream = "none"
    THEN /\ audio_stream' = "started"
         /\ streams_opened' = streams_opened + 1
    ELSE UNCHANGED <<audio_stream, streams_opened>>

\* run_server serving requests without having called ensure_stream first.
run_server_before_stream ==
    /\ ~serving
    /\ serving' = TRUE
    /\ UNCHANGED <<recording_event, audio_lock, audio_chunks, audio_stream,
                   streams_opened, cb_pc, indata, delivered, pc, chunks, resp,
                   ncommands, returned, quietAtCall, noStartSince,
                   stream_missing>>
    /\ UNCHANGED nonRecVars

\* run_server: ensure_stream(), then serve_forever().
run_server ==
    /\ ~serving
    /\ ensure_stream
    /\ serving' = TRUE
    /\ UNCHANGED <<recording_event, audio_lock, audio_chunks, cb_pc, indata,
                   delivered, pc, chunks, resp, ncommands, returned,
                   quietAtCall, noStartSince,
                   stream_missing>>
    /\ UNCHANGED nonRecVars

\* ------------------------------------------------------------------------
\* audio_callback (producer thread)
\* ------------------------------------------------------------------------

\* The stream invokes the callback with a new frame; the callback tests
\* recording_event.is_set() (line 66) outside the lock.
audio_callback_check ==
    /\ audio_stream = "started"
    /\ cb_pc = "wait"
    /\ delivered < MaxFrames
    /\ delivered' = delivered + 1
    /\ IF recording_event
       THEN /\ cb_pc' = "cb_lock"
            /\ indata' = delivered + 1
       ELSE /\ cb_pc' = "wait"
            /\ indata' = 0
    /\ UNCHANGED <<recording_event, audio_lock, audio_chunks, audio_stream,
                   streams_opened, serving, pc, chunks, resp, ncommands,
                   returned, quietAtCall, noStartSince,
                   stream_missing>>
    /\ UNCHANGED nonRecVars

\* `with audio_lock:` (line 67): blocks until the lock is free.
audio_callback_acquire ==
    /\ cb_pc = "cb_lock"
    /\ audio_lock = "free"
    /\ audio_lock' = Producer
    /\ cb_pc' = "cb_append"
    /\ UNCHANGED <<recording_event, audio_chunks, audio_stream, streams_opened,
                   serving, indata, delivered, pc, chunks, resp, ncommands,
                   returned, quietAtCall, noStartSince,
                   stream_missing>>
    /\ UNCHANGED nonRecVars

\* audio_chunks.append(indata.copy()) (line 68) and the end of the with block.
audio_callback_append ==
    /\ cb_pc = "cb_append"
    /\ audio_lock = Producer
    /\ audio_chunks' = Append(audio_chunks, indata)
    /\ audio_lock' = "free"
    /\ cb_pc' = "wait"
    /\ indata' = 0
    /\ UNCHANGED <<recording_event, audio_stream, streams_opened, serving,
                   delivered, pc, chunks, resp, ncommands, returned,
                   quietAtCall, noStartSince,
                   stream_missing>>
    /\ UNCHANGED nonRecVars

\* ------------------------------------------------------------------------
\* POST /record/start (lines 421-427)
\* ------------------------------------------------------------------------

\* A request thread picks up a POST /record/start.
start_request(t) ==
    /\ serving
    /\ pc[t] = "idle"
    /\ ncommands < MaxCommands
    /\ ncommands' = ncommands + 1
    /\ pc' = [pc EXCEPT ![t] = "start_ensure"]
    /\ noStartSince' = [u \in CmdThreads |-> FALSE]
    /\ UNCHANGED <<recording_event, audio_lock, audio_chunks, audio_stream,
                   streams_opened, serving, cb_pc, indata, delivered, chunks,
                   resp, returned, quietAtCall,
                   stream_missing>>
    /\ UNCHANGED nonRecVars

\* ensure_stream() (line 422), its test: audio_stream is None (line 73),
\* under no lock.
start_ensure(t) ==
    /\ pc[t] = "start_ensure"
    /\ stream_missing' = [stream_missing EXCEPT ![t] = (audio_stream = "none")]
    /\ pc' = [pc EXCEPT ![t] = "start_create"]
    /\ UNCHANGED <<recording_event, audio_lock, audio_chunks, audio_stream,
                   streams_opened, serving, cb_pc, indata, delivered, chunks,
                   resp, ncommands, returned, quietAtCall, noStartSince>>
    /\ UNCHANGED nonRecVars

\* ensure_stream() (line 422), after its test: the stream is created and
\* started (lines 74-80) if the test found none.
start_create(t) ==
    /\ pc[t] = "start_create"
    /\ IF stream_missing[t]
       THEN /\ audio_stream' = "started"
            /\ streams_opened' = streams_opened + 1
       ELSE UNCHANGED <<audio_stream, streams_opened>>
    /\ stream_missing' = [stream_missing EXCEPT ![t] = FALSE]
    /\ pc' = [pc EXCEPT ![t] = "start_lock"]
    /\ UNCHANGED <<recording_event, audio_lock, audio_chunks, serving, cb_pc,
                   indata, delivered, chunks, resp, ncommands, returned,
                   quietAtCall, noStartSince>>
    /\ UNCHANGED nonRecVars

\* `with audio_lock:` (line 423).
start_acquire(t) ==
    /\ pc[t] = "start_lock"
    /\ audio_lock = "free"
    /\ audio_lock' = t
    /\ pc' = [pc EXCEPT ![t] = "start_clear"]
    /\ UNCHANGED <<recording_event, audio_chunks, audio_stream, streams_opened,
                   serving, cb_pc, indata, delivered, chunks, resp, ncommands,
                   returned, quietAtCall, noStartSince,
                   stream_missing>>
    /\ UNCHANGED nonRecVars

\* start_clear that leaves the with block without releasing the lock.
start_clear_keeps_lock(t) ==
    /\ pc[t] = "start_clear"
    /\ audio_lock = t
    /\ audio_chunks' = <<>>
    /\ pc' = [pc EXCEPT ![t] = "start_set"]
    /\ UNCHANGED <<recording_event, audio_lock, audio_stream, streams_opened,
                   serving, cb_pc, indata, delivered, chunks, resp, ncommands,
                   returned, quietAtCall, noStartSince,
                   stream_missing>>
    /\ UNCHANGED nonRecVars

\* audio_chunks.clear() (line 424) and the end of the with block: the clear is
\* unconditional, whatever recording_event is.
start_clear(t) ==
    /\ pc[t] = "start_clear"
    /\ audio_lock = t
    /\ audio_chunks' = <<>>
    /\ audio_lock' = "free"
    /\ pc' = [pc EXCEPT ![t] = "start_set"]
    /\ UNCHANGED <<recording_event, audio_stream, streams_opened, serving,
                   cb_pc, indata, delivered, chunks, resp, ncommands, returned,
                   quietAtCall, noStartSince,
                   stream_missing>>
    /\ UNCHANGED nonRecVars

\* recording_event.set() (line 425), outside the lock.
start_set(t) ==
    /\ pc[t] = "start_set"
    /\ recording_event' = TRUE
    /\ pc' = [pc EXCEPT ![t] = "start_respond"]
    /\ UNCHANGED <<audio_lock, audio_chunks, audio_stream, streams_opened,
                   serving, cb_pc, indata, delivered, chunks, resp, ncommands,
                   returned, quietAtCall, noStartSince,
                   stream_missing>>
    /\ UNCHANGED nonRecVars

\* build_response(self, 200, {"status": "recording"}) (line 426).
start_respond(t) ==
    /\ pc[t] = "start_respond"
    /\ resp' = [resp EXCEPT ![t] = "200_recording"]
    /\ pc' = [pc EXCEPT ![t] = "idle"]
    /\ UNCHANGED <<recording_event, audio_lock, audio_chunks, audio_stream,
                   streams_opened, serving, cb_pc, indata, delivered, chunks,
                   ncommands, returned, quietAtCall, noStartSince,
                   stream_missing>>
    /\ UNCHANGED nonRecVars

\* ------------------------------------------------------------------------
\* POST /record/stop (lines 429-456)
\* ------------------------------------------------------------------------

\* A request thread picks up a POST /record/stop.
stop_request(t) ==
    /\ serving
    /\ pc[t] = "idle"
    /\ ncommands < MaxCommands
    /\ ncommands' = ncommands + 1
    /\ pc' = [pc EXCEPT ![t] = "stop_event"]
    /\ quietAtCall' = [quietAtCall EXCEPT ![t] =
            ~recording_event /\ \A u \in CmdThreads : pc[u] = "idle"]
    /\ noStartSince' = [noStartSince EXCEPT ![t] =
            \A u \in CmdThreads : pc[u] \notin StartPcs]
    /\ UNCHANGED <<recording_event, audio_lock, audio_chunks, audio_stream,
                   streams_opened, serving, cb_pc, indata, delivered, chunks,
                   resp, returned,
                   stream_missing>>
    /\ UNCHANGED nonRecVars

\* recording_event.clear() (line 430), outside the lock.
stop_event(t) ==
    /\ pc[t] = "stop_event"
    /\ recording_event' = FALSE
    /\ pc' = [pc EXCEPT ![t] = "stop_lock"]
    /\ UNCHANGED <<audio_lock, audio_chunks, audio_stream, streams_opened,
                   serving, cb_pc, indata, delivered, chunks, resp, ncommands,
                   returned, quietAtCall, noStartSince,
                   stream_missing>>
    /\ UNCHANGED nonRecVars

\* `with audio_lock:` (line 431).
stop_acquire(t) ==
    /\ pc[t] = "stop_lock"
    /\ audio_lock = "free"
    /\ audio_lock' = t
    /\ pc' = [pc EXCEPT ![t] = "stop_copy"]
    /\ UNCHANGED <<recording_event, audio_chunks, audio_stream, streams_opened,
                   serving, cb_pc, indata, delivered, chunks, resp, ncommands,
                   returned, quietAtCall, noStartSince,
                   stream_missing>>
    /\ UNCHANGED nonRecVars

\* chunks = list(audio_chunks) (line 432).
stop_copy(t) ==
    /\ pc[t] = "stop_copy"
    /\ audio_lock = t
    /\ chunks' = [chunks EXCEPT ![t] = audio_chunks]
    /\ returned' = returned \o audio_chunks
    /\ pc' = [pc EXCEPT ![t] = "stop_clear"]
    /\ UNCHANGED <<recording_event, audio_lock, audio_chunks, audio_stream,
                   streams_opened, serving, cb_pc, indata, delivered, resp,
                   ncommands, quietAtCall, noStartSince,
                   stream_missing>>
    /\ UNCHANGED nonRecVars

\* stop_clear with line 433 left out: the drained frames stay in the buffer.
stop_clear_keeps_frames(t) ==
    /\ pc[t] = "stop_clear"
    /\ audio_lock = t
    /\ audio_lock' = "free"
    /\ pc' = [pc EXCEPT ![t] = "stop_check"]
    /\ UNCHANGED <<recording_event, audio_chunks, audio_stream, streams_opened,
                   serving, cb_pc, indata, delivered, chunks, resp, ncommands,
                   returned, quietAtCall, noStartSince,
                   stream_missing>>
    /\ UNCHANGED nonRecVars

\* stop_clear that goes on to the transcription with the lock still held.
stop_clear_holds_lock(t) ==
    /\ pc[t] = "stop_clear"
    /\ audio_lock = t
    /\ audio_chunks' = <<>>
    /\ pc' = [pc EXCEPT ![t] = "stop_check"]
    /\ UNCHANGED <<recording_event, audio_lock, audio_stream, streams_opened,
                   serving, cb_pc, indata, delivered, chunks, resp, ncommands,
                   returned, quietAtCall, noStartSince, stream_missing>>
    /\ UNCHANGED nonRecVars

\* audio_chunks.clear() (line 433) and the end of the with block.
stop_clear(t) ==
    /\ pc[t] = "stop_clear"
    /\ audio_lock = t
    /\ audio_chunks' = <<>>
    /\ audio_lock' = "free"
    /\ pc' = [pc EXCEPT ![t] = "stop_check"]
    /\ UNCHANGED <<recording_event, audio_stream, streams_opened, serving,
                   cb_pc, indata, delivered, chunks, resp, ncommands, returned,
                   quietAtCall, noStartSince,
                   stream_missing>>
    /\ UNCHANGED nonRecVars

\* if not chunks: 400 "No audio recorded" (lines 435-437); else concatenate
\* the frames (lines 439-440) and go on to transcription.
stop_check(t) ==
    /\ pc[t] = "stop_check"
    /\ IF chunks[t] = <<>>
       THEN /\ resp' = [resp EXCEPT ![t] = "400_no_audio"]
            /\ pc' = [pc EXCEPT ![t] = "idle"]
       ELSE /\ resp' = resp
            /\ pc' = [pc EXCEPT ![t] = "stop_transcribe"]
    /\ UNCHANGED <<recording_event, audio_lock, audio_chunks, audio_stream,
                   streams_opened, serving, cb_pc, indata, delivered, chunks,
                   ncommands, returned, quietAtCall, noStartSince,
                   stream_missing>>
    /\ UNCHANGED nonRecVars

\* stop_transcribe putting the drained frames back when the call raises.
stop_transcribe_restores(t) ==
    /\ pc[t] = "stop_transcribe"
    /\ \E ok \in BOOLEAN :
          IF ok
          THEN /\ pc' = [pc EXCEPT ![t] = "stop_respond"]
               /\ UNCHANGED <<resp, chunks, audio_chunks>>
          ELSE /\ resp' = [resp EXCEPT ![t] = "500_error"]
               /\ audio_chunks' = chunks[t] \o audio_chunks
               /\ chunks' = [chunks EXCEPT ![t] = <<>>]
               /\ pc' = [pc EXCEPT ![t] = "idle"]
    /\ UNCHANGED <<recording_event, audio_lock, audio_stream, streams_opened,
                   serving, cb_pc, indata, delivered, ncommands, returned,
                   quietAtCall, noStartSince, stream_missing>>
    /\ UNCHANGED nonRecVars

\* result = transcribe_audio(samples) (lines 442-446): the call returns a
\* result, or raises and the handler answers 500.
stop_transcribe(t) ==
    /\ pc[t] = "stop_transcribe"
    /\ \E ok \in BOOLEAN :
          IF ok
          THEN /\ pc' = [pc EXCEPT ![t] = "stop_respond"]
               /\ UNCHANGED <<resp, chunks>>
          ELSE /\ resp' = [resp EXCEPT ![t] = "500_error"]
               /\ chunks' = [chunks EXCEPT ![t] = <<>>]
               /\ pc' = [pc EXCEPT ![t] = "idle"]
    /\ UNCHANGED <<recording_event, audio_lock, audio_chunks, audio_stream,
                   streams_opened, serving, cb_pc, indata, delivered,
                   ncommands, returned, quietAtCall, noStartSince,
                   stream_missing>>
    /\ UNCHANGED nonRecVars

\* generate_title (absorbed on failure, lines 448-452) and
\* build_response(self, 200, result) (lines 454-456).
stop_respond(t) ==
    /\ pc[t] = "stop_respond"
    /\ resp' = [resp EXCEPT ![t] = "200_result"]
    /\ chunks' = [chunks EXCEPT ![t] = <<>>]
    /\ pc' = [pc EXCEPT ![t] = "idle"]
    /\ UNCHANGED <<recording_event, audio_lock, audio_chunks, audio_stream,
                   streams_opened, serving, cb_pc, indata, delivered,
                   ncommands, returned, quietAtCall, noStartSince,
                   stream_missing>>
    /\ UNCHANGED nonRecVars

\* ------------------------------------------------------------------------
\* The recording session as a whole
\* ------------------------------------------------------------------------

RecNext ==
    \/ run_server
    \/ audio_callback_check
    \/ audio_callback_acquire
    \/ audio_callback_append
    \/ \E t \in CmdThreads :
          \/ start_request(t)
          \/ start_ensure(t)
          \/ start_create(t)
          \/ start_acquire(t)
          \/ start_clear(t)
          \/ start_set(t)
          \/ start_respond(t)
          \/ stop_request(t)
          \/ stop_event(t)
          \/ stop_acquire(t)
          \/ stop_copy(t)
          \/ stop_clear(t)
          \/ stop_check(t)
          \/ stop_transcribe(t)
          \/ stop_respond(t)

\* ------------------------------------------------------------------------
\* Text: a Python str is a sequence of one-character strings
\* ------------------------------------------------------------------------

\* Python's None.
None == "None"

SetMin(S) == CHOOSE x \in S : \A y \in S : x <= y
SetMax(S) == CHOOSE x \in S : \A y \in S : y <= x
Min2(a, b) == IF a <= b THEN a ELSE b
Max2(a, b) == IF a >= b THEN a ELSE b

\* str.strip(): leading and trailing whitespace removed.
Strip(s) ==
    LET keep == {i \in 1..Len(s) : s[i] # " "}
    IN  IF keep = {} THEN <<>> ELSE SubSeq(s, SetMin(keep), SetMax(keep))

\* " ".join(parts).
RECURSIVE JoinSpace(_)
JoinSpace(parts) ==
    IF parts = <<>> THEN <<>>
    ELSE IF Len(parts) = 1 THEN parts[1]
    ELSE parts[1] \o <<" ">> \o JoinSpace(Tail(parts))

\* ------------------------------------------------------------------------
\* The recognition capability (speech_client.recognize) and _recognize_chunk
\* ------------------------------------------------------------------------

\* Most results one response carries.
MaxResults == 2

\* Samples in the recording handed to transcribe_audio.
MaxSamples == 5

\* Values of RATE and TRANSCRIPTION_CHUNK_SECONDS (both read from the
\* environment, lines 33-34 and 41), scaled down.
RateValues == {2, 3}
ChunkSecondsValues == {-1, 0, 1, 2}

\* One result of a response: no alternative, or a first alternative with its
\* transcript (plain, with a leading space, or empty) and the result's
\* BCP-47 language tag, one of LANGUAGES (lines 35-39).
Results ==
    {[has_alternative |-> FALSE, transcript |-> <<>>, language_code |-> "en-US"]}
    \cup {[has_alternative |-> TRUE, transcript |-> <<"a">>, language_code |-> "en-US"],
          [has_alternative |-> TRUE, transcript |-> <<" ", "b">>, language_code |-> "nl-NL"],
          [has_alternative |-> TRUE, transcript |-> <<>>, language_code |-> "de-DE"]}

RECURSIVE SeqsUpTo(_, _)
SeqsUpTo(S, n) ==
    IF n = 0 THEN {<<>>}
    ELSE LET shorter == SeqsUpTo(S, n - 1)
         IN  shorter \cup {Append(q, x) : q \in {r \in shorter : Len(r) = n - 1}, x \in S}

Responses == SeqsUpTo(Results, MaxResults)

\* The loop of lines 125-131 over response.results.
RECURSIVE recognize_results(_, _, _)
recognize_results(results, parts, lang) ==
    IF results = <<>> THEN [parts |-> parts, language |-> lang]
    ELSE LET result == Head(results)
         IN  IF result.has_alternative
             THEN recognize_results(Tail(results),
                                    Append(parts, result.transcript),
                                    IF lang = None THEN result.language_code ELSE lang)
             ELSE recognize_results(Tail(results), parts, lang)

\* Line 133: the text of a window is joined and stripped.
recognize_text(parts) == Strip(JoinSpace(parts))

\* _recognize_chunk(samples) for a window of `size` samples, given the
\* response the service returns for it.
recognize_chunk(size, response) ==
    IF size = 0
    THEN [text |-> <<>>, language |-> None]
    ELSE LET r == recognize_results(response, <<>>, None)
         IN  [text |-> recognize_text(r.parts), language |-> r.language]

\* ------------------------------------------------------------------------
\* transcribe_audio (lines 136-155)
\* ------------------------------------------------------------------------

\* chunk_size without the max(1, ...) of line 140.
chunk_size_unclamped == tr_rate * tr_secs

\* chunk_size = int(RATE * max(1, TRANSCRIPTION_CHUNK_SECONDS)) (lines 140-141).
chunk_size == tr_rate * Max2(1, tr_secs)

\* range(start0, stop, step) still has an element at `start`.
RangeHasNext(start, stop, step) ==
    IF step > 0 THEN start < stop
    ELSE IF step < 0 THEN start > stop
    ELSE FALSE

\* Lines 150-151: a window's text is kept only if it is non-empty.
merge_text(parts, result) ==
    IF result.text # <<>> THEN Append(parts, result.text) ELSE parts

\* merge_language without the `language is None` test: the last language wins.
merge_language_last(lang, result) ==
    IF result.language # None THEN result.language ELSE lang

\* Lines 152-153: the first language seen is kept.
merge_language(lang, result) ==
    IF lang = None /\ result.language # None THEN result.language ELSE lang

\* No response sent yet; an error response carries no text.
NoResponse == [status |-> 0, text |-> <<>>]

TrOff ==
    /\ tr_pc = "off"
    /\ tr_n = 0
    /\ tr_rate = 2
    /\ tr_secs = 1
    /\ tr_start = 0
    /\ transcript_parts = <<>>
    /\ language = None
    /\ tr_out = None
    /\ tr_calls = <<>>
    /\ tr_results = <<>>
    /\ tr_failed = FALSE
    /\ tr_resp = NoResponse

\* A call transcribe_audio(samples) under some configuration.
TrInit ==
    /\ tr_pc = "begin"
    /\ tr_n \in 0..MaxSamples
    /\ tr_rate \in RateValues
    /\ tr_secs \in ChunkSecondsValues
    /\ tr_start = 0
    /\ transcript_parts = <<>>
    /\ language = None
    /\ tr_out = None
    /\ tr_calls = <<>>
    /\ tr_results = <<>>
    /\ tr_failed = FALSE
    /\ tr_resp = NoResponse

\* Lines 137-146: the empty recording, the single window, or the loop
\* (range() raises ValueError on a zero step).
transcribe_begin ==
    /\ tr_pc = "begin"
    /\ IF tr_n = 0
       THEN /\ tr_out' = [text |-> <<>>, language |-> None]
            /\ tr_pc' = "done"
       ELSE /\ tr_out' = tr_out
            /\ tr_pc' = IF tr_n <= chunk_size THEN "single"
                        ELSE IF chunk_size = 0 THEN "raised"
                        ELSE "loop"
    /\ UNCHANGED <<tr_n, tr_rate, tr_secs, tr_start, transcript_parts,
                   language, tr_calls, tr_results, tr_failed, tr_resp>>
    /\ UNCHANGED nonTrVars

\* Line 143: return _recognize_chunk(samples).
transcribe_single ==
    /\ tr_pc = "single"
    /\ \E response \in Responses :
          LET result == recognize_chunk(tr_n, response)
          IN  /\ tr_out' = result
              /\ tr_results' = Append(tr_results, result)
    /\ tr_calls' = Append(tr_calls, <<0, tr_n>>)
    /\ tr_pc' = "done"
    /\ UNCHANGED <<tr_n, tr_rate, tr_secs, tr_start, transcript_parts, language,
                   tr_failed, tr_resp>>
    /\ UNCHANGED nonTrVars

\* One iteration of the loop of lines 147-153.
transcribe_window ==
    /\ tr_pc = "loop"
    /\ RangeHasNext(tr_start, tr_n, chunk_size)
    /\ LET hi == Min2(tr_start + chunk_size, tr_n)
       IN  /\ tr_calls' = Append(tr_calls, <<tr_start, hi>>)
           /\ \E response \in Responses :
                 LET result == recognize_chunk(hi - tr_start, response)
                 IN  /\ transcript_parts' = merge_text(transcript_parts, result)
                     /\ language' = merge_language(language, result)
                     /\ tr_results' = Append(tr_results, result)
    /\ tr_start' = tr_start + chunk_size
    /\ UNCHANGED <<tr_pc, tr_n, tr_rate, tr_secs, tr_out, tr_failed, tr_resp>>
    /\ UNCHANGED nonTrVars

\* Line 155: the merged transcript.
transcribe_return ==
    /\ tr_pc = "loop"
    /\ ~RangeHasNext(tr_start, tr_n, chunk_size)
    /\ tr_out' = [text |-> Strip(JoinSpace(transcript_parts)), language |-> language]
    /\ tr_pc' = "done"
    /\ UNCHANGED <<tr_n, tr_rate, tr_secs, tr_start, transcript_parts,
                   language, tr_calls, tr_results, tr_failed, tr_resp>>
    /\ UNCHANGED nonTrVars

\* recognize_raises with the failure swallowed (`except: continue`): the
\* failed window is skipped and the transcription goes on.
recognize_raises_swallowed ==
    /\ \/ tr_pc = "single"
       \/ tr_pc = "loop" /\ RangeHasNext(tr_start, tr_n, chunk_size)
    /\ tr_failed' = TRUE
    /\ tr_pc' = "loop"
    /\ tr_start' = tr_start + chunk_size
    /\ UNCHANGED <<tr_n, tr_rate, tr_secs, transcript_parts, language, tr_out,
                   tr_calls, tr_results, tr_resp>>
    /\ UNCHANGED nonTrVars

\* speech_client.recognize raises (line 123): nothing in _recognize_chunk
\* or transcribe_audio catches it.
recognize_raises ==
    /\ \/ tr_pc = "single"
       \/ tr_pc = "loop" /\ RangeHasNext(tr_start, tr_n, chunk_size)
    /\ tr_failed' = TRUE
    /\ tr_pc' = "raised"
    /\ UNCHANGED <<tr_n, tr_rate, tr_secs, tr_start, transcript_parts,
                   language, tr_out, tr_calls, tr_results, tr_resp>>
    /\ UNCHANGED nonTrVars

\* The caller, /record/stop (lines 442-446 and 454-455): an exception of
\* transcribe_audio is answered 500 {"error": ...}, a result 200 with its text.
stop_transcribe_respond ==
    /\ tr_pc \in {"done", "raised"}
    /\ tr_n > 0
    /\ tr_resp = NoResponse
    /\ tr_resp' = IF tr_pc = "raised"
                  THEN [status |-> 500, text |-> <<>>]
                  ELSE [status |-> 200, text |-> tr_out.text]
    /\ UNCHANGED <<tr_pc, tr_n, tr_rate, tr_secs, tr_start, transcript_parts,
                   language, tr_out, tr_calls, tr_results, tr_failed>>
    /\ UNCHANGED nonTrVars

TrNext ==
    \/ transcribe_begin
    \/ transcribe_single
    \/ transcribe_window
    \/ transcribe_return
    \/ recognize_raises
    \/ stop_transcribe_respond

\* ------------------------------------------------------------------------
\* Text over a small alphabet: a letter, a sentence terminal, whitespace
\* ------------------------------------------------------------------------

\* Longest text handed to _split_transcript.
MaxTextLen == 6

\* Largest max_chars handed to _split_transcript.
MaxChunkChars == 4

TextAlphabet == {"a", ".", " "}

Texts == SeqsUpTo(TextAlphabet, MaxTextLen)

\* [.!?] and \s of the regular expression of lines 197 and 335.
IsTerminal(c) == c \in {".", "!", "?"}
IsSpace(c) == c = " "

\* The first index >= i of text that holds no whitespace, Len(text) + 1 if none.
RECURSIVE SkipSpaces(_, _)
SkipSpaces(text, i) ==
    IF i > Len(text) \/ ~IsSpace(text[i]) THEN i ELSE SkipSpaces(text, i + 1)

\* re.split(r"(?<=[.!?])\s+", text): the pieces between the whitespace runs
\* that follow a sentence terminal; `start` is where the current piece
\* begins, `i` the position scanned.
RECURSIVE re_split_from(_, _, _)
re_split_from(text, start, i) ==
    IF i > Len(text) THEN <<SubSeq(text, start, Len(text))>>
    ELSE IF i > 1 /\ IsTerminal(text[i - 1]) /\ IsSpace(text[i])
    THEN LET j == SkipSpaces(text, i)
         IN  <<SubSeq(text, start, i - 1)>> \o re_split_from(text, j, j)
    ELSE re_split_from(text, start, i + 1)

re_split(text) == re_split_from(text, 1, 1)

\* ------------------------------------------------------------------------
\* _split_transcript (lines 193-227)
\* ------------------------------------------------------------------------

\* The slices of lines 212-213 emitted last first.
RECURSIVE hard_slices_reversed(_, _, _)
hard_slices_reversed(sentence, i, max_chars) ==
    IF i >= Len(sentence) THEN <<>>
    ELSE hard_slices_reversed(sentence, i + max_chars, max_chars)
         \o <<Strip(SubSeq(sentence, i + 1, Min2(i + max_chars, Len(sentence))))>>

\* Lines 212-213: sentence[i : i + max_chars].strip() for i in
\* range(0, sentence_len, max_chars), from offset i (0-based).
RECURSIVE hard_slices(_, _, _)
hard_slices(sentence, i, max_chars) ==
    IF i >= Len(sentence) THEN <<>>
    ELSE <<Strip(SubSeq(sentence, i + 1, Min2(i + max_chars, Len(sentence))))>>
         \o hard_slices(sentence, i + max_chars, max_chars)

\* The overflow test of line 216 with the length already packed left out.
split_overflows_ignores_current(cur, cur_len, sentence_len, max_chars) ==
    sentence_len + 1 > max_chars /\ cur # <<>>

\* Line 216: current_len + sentence_len + 1 > max_chars and current.
split_overflows(cur, cur_len, sentence_len, max_chars) ==
    cur_len + sentence_len + 1 > max_chars /\ cur # <<>>

\* The chunk started after a close, with the sentence that overflowed lost.
chunk_after_close_empty(sentence) == <<>>

\* Line 218: the chunk started after a close holds the sentence that overflowed.
chunk_after_close(sentence) == <<sentence>>

\* Lines 209, 217, 225: " ".join(current).strip().
close_chunk(cur) == Strip(JoinSpace(cur))

SpOff ==
    /\ sp_pc = "off"
    /\ sp_text = <<>>
    /\ sp_max = 1
    /\ sp_sentences = <<>>
    /\ sp_chunks = <<>>
    /\ current = <<>>
    /\ current_len = 0
    /\ sp_out = <<>>

\* A call _split_transcript(text, max_chars).
SpInit ==
    /\ sp_pc = "begin"
    /\ sp_text \in Texts
    /\ sp_max \in 1..MaxChunkChars
    /\ sp_sentences = <<>>
    /\ sp_chunks = <<>>
    /\ current = <<>>
    /\ current_len = 0
    /\ sp_out = <<>>

\* Lines 194-200: a text that fits is returned as it is; else it is split
\* into sentences.
split_begin ==
    /\ sp_pc = "begin"
    /\ IF Len(sp_text) <= sp_max
       THEN /\ sp_out' = <<sp_text>>
            /\ sp_pc' = "done"
            /\ sp_sentences' = sp_sentences
       ELSE /\ sp_out' = sp_out
            /\ sp_pc' = "loop"
            /\ sp_sentences' = re_split(sp_text)
    /\ UNCHANGED <<sp_text, sp_max, sp_chunks, current, current_len>>
    /\ UNCHANGED nonSpVars

\* One iteration of the loop of lines 202-222.
split_sentence ==
    /\ sp_pc = "loop"
    /\ sp_sentences # <<>>
    /\ sp_sentences' = Tail(sp_sentences)
    /\ LET sentence == Head(sp_sentences)
           sentence_len == Len(sentence)
       IN  IF sentence = <<>>
           THEN UNCHANGED <<sp_chunks, current, current_len>>
           ELSE IF sentence_len > sp_max
           THEN /\ sp_chunks' = (IF current # <<>>
                                 THEN Append(sp_chunks, close_chunk(current))
                                 ELSE sp_chunks)
                                \o hard_slices(sentence, 0, sp_max)
                /\ current' = <<>>
                /\ current_len' = 0
           ELSE IF split_overflows(current, current_len, sentence_len, sp_max)
           THEN /\ sp_chunks' = Append(sp_chunks, close_chunk(current))
                /\ current' = chunk_after_close(sentence)
                /\ current_len' = sentence_len
           ELSE /\ sp_chunks' = sp_chunks
                /\ current' = Append(current, sentence)
                /\ current_len' = current_len + sentence_len + 1
    /\ UNCHANGED <<sp_pc, sp_text, sp_max, sp_out>>
    /\ UNCHANGED nonSpVars

\* Lines 224-227: the pending chunk is flushed and the empty chunks dropped.
split_return ==
    /\ sp_pc = "loop"
    /\ sp_sentences = <<>>
    /\ LET all == IF current # <<>>
                  THEN Append(sp_chunks, close_chunk(current))
                  ELSE sp_chunks
       IN  /\ sp_chunks' = all
           /\ sp_out' = SelectSeq(all, LAMBDA chunk : chunk # <<>>)
    /\ sp_pc' = "done"
    /\ UNCHANGED <<sp_text, sp_max, sp_sentences, current, current_len>>
    /\ UNCHANGED nonSpVars

SpNext ==
    \/ split_begin
    \/ split_sentence
    \/ split_return

\* ------------------------------------------------------------------------
\* The generative capability and the deterministic summary fallback
\* ------------------------------------------------------------------------

\* The sizes of summarize_transcript, scaled down and kept in the order of
\* the source: 120 (line 187) < 400 (line 282) < 1000 (line 255) < 1200
\* (line 181).
MinLastStop == 1
ChunkFallbackMaxChars == 2
MinChunkChars == 3
FallbackMaxChars == 4

\* Values of SUMMARY_CHUNK_CHARS (line 48), below and above the floor of
\* line 255.
ChunkCharsValues == {1, MinChunkChars + 1}

\* What _extract_text makes of a response (lines 158-178): no text, or a
\* stripped text.
GenTexts == {<<>>, <<"s">>}

\* str.split(): the maximal runs of non-whitespace; `word` is the run read
\* so far.
RECURSIVE split_words(_, _)
split_words(text, word) ==
    IF text = <<>> THEN (IF word = <<>> THEN <<>> ELSE <<word>>)
    ELSE IF IsSpace(Head(text))
    THEN (IF word = <<>> THEN <<>> ELSE <<word>>) \o split_words(Tail(text), <<>>)
    ELSE split_words(Tail(text), Append(word, Head(text)))

\* str.rstrip().
RStrip(s) ==
    LET keep == {i \in 1..Len(s) : ~IsSpace(s[i])}
    IN  IF keep = {} THEN <<>> ELSE SubSeq(s, 1, SetMax(keep))

\* max(snippet.rfind(". "), snippet.rfind("! "), snippet.rfind("? ")) of
\* line 186, 0-based, -1 if none is found.
last_stop_of(snippet) ==
    LET stops == {i \in 0..(Len(snippet) - 2) :
                      IsTerminal(snippet[i + 1]) /\ IsSpace(snippet[i + 2])}
    IN  IF stops = {} THEN -1 ELSE SetMax(stops)

\* _fallback_summary_text cutting at last_stop without the test of line 187.
fallback_summary_text_unguarded(transcript, max_chars) ==
    LET collapsed == JoinSpace(split_words(transcript, <<>>))
        snippet == SubSeq(collapsed, 1, max_chars)
    IN  IF Len(collapsed) <= max_chars THEN collapsed
        ELSE Strip(SubSeq(snippet, 1, last_stop_of(snippet) + 1))

\* _fallback_summary_text (lines 181-190).
fallback_summary_text(transcript, max_chars) ==
    LET collapsed == JoinSpace(split_words(transcript, <<>>))
        snippet == SubSeq(collapsed, 1, max_chars)
        last_stop == last_stop_of(snippet)
    IN  IF Len(collapsed) <= max_chars THEN collapsed
        ELSE IF last_stop > MinLastStop
        THEN Strip(SubSeq(snippet, 1, last_stop + 1))
        ELSE RStrip(snippet) \o <<".", ".", ".">>

\* ------------------------------------------------------------------------
\* summarize_transcript (lines 247-328) and the /summarize handler
\* ------------------------------------------------------------------------

\* A credentials test that lets a missing key through.
missing_key_ignored(key) == FALSE

\* Line 248: not SUMMARY_API_KEY.
missing_key(key) == ~key

\* An emptiness test that lets the empty text through.
no_text_ignored(text) == FALSE

\* Line 252: not text.
no_text(text) == text = <<>>

\* The last resort computed over the notes the final prompt was written over.
final_fallback_over_notes(text, prompt) == fallback_summary_text(prompt, FallbackMaxChars)

\* Lines 323-326: the last resort is computed over the stripped transcript.
final_fallback(text, prompt) == fallback_summary_text(text, FallbackMaxChars)

NoSummaryResponse == [status |-> 0, summary |-> <<>>, error |-> ""]

SuOff ==
    /\ su_pc = "off"
    /\ su_transcript = <<>>
    /\ su_key = TRUE
    /\ su_distinct = FALSE
    /\ su_chunk_chars = 1
    /\ su_text = <<>>
    /\ su_chunks = <<>>
    /\ su_idx = 0
    /\ chunk_summaries = <<>>
    /\ su_prompt = <<>>
    /\ summary = <<>>
    /\ su_error = ""
    /\ su_calls = 0
    /\ su_all_empty = TRUE
    /\ su_log = <<>>
    /\ su_resp = NoSummaryResponse

\* A POST /summarize with a transcript, under some configuration.
SuInit ==
    /\ su_pc = "begin"
    /\ su_transcript \in Texts
    /\ su_key \in BOOLEAN
    /\ su_distinct \in BOOLEAN
    /\ su_chunk_chars \in ChunkCharsValues
    /\ su_text = <<>>
    /\ su_chunks = <<>>
    /\ su_idx = 0
    /\ chunk_summaries = <<>>
    /\ su_prompt = <<>>
    /\ summary = <<>>
    /\ su_error = ""
    /\ su_calls = 0
    /\ su_all_empty = TRUE
    /\ su_log = <<>>
    /\ su_resp = NoSummaryResponse

\* Lines 248-255: the credentials test, the strip, the early return of the
\* empty summary, and the call of _split_transcript.
summarize_begin ==
    /\ su_pc = "begin"
    /\ IF missing_key(su_key)
       THEN /\ su_pc' = "raised"
            /\ su_error' = "ValueError"
            /\ UNCHANGED <<su_text, summary, spVars>>
       ELSE /\ su_text' = Strip(su_transcript)
            /\ su_error' = su_error
            /\ IF no_text(Strip(su_transcript))
               THEN /\ su_pc' = "done"
                    /\ summary' = <<>>
                    /\ UNCHANGED spVars
               ELSE /\ su_pc' = "split"
                    /\ summary' = summary
                    /\ sp_pc' = "begin"
                    /\ sp_text' = Strip(su_transcript)
                    /\ sp_max' = Max2(MinChunkChars, su_chunk_chars)
                    /\ UNCHANGED <<sp_sentences, sp_chunks, current, current_len, sp_out>>
    /\ UNCHANGED <<su_transcript, su_key, su_distinct, su_chunk_chars, su_chunks,
                   su_idx, chunk_summaries, su_prompt, su_calls, su_all_empty,
                   su_log, su_resp>>
    /\ UNCHANGED <<recVars, trVars, tiVars>>

\* Lines 255-259 and 296: _split_transcript has returned; several chunks are
\* summarized one by one, a single chunk goes to the final prompt as the text.
summarize_chunks ==
    /\ su_pc = "split"
    /\ sp_pc = "done"
    /\ su_chunks' = sp_out
    /\ IF Len(sp_out) > 1
       THEN /\ su_pc' = "chunk_primary"
            /\ su_idx' = 1
            /\ su_prompt' = su_prompt
       ELSE /\ su_pc' = "final_primary"
            /\ su_idx' = su_idx
            /\ su_prompt' = su_text
    /\ UNCHANGED <<su_transcript, su_key, su_distinct, su_chunk_chars, su_text,
                   chunk_summaries, summary, su_error, su_calls, su_all_empty,
                   su_log, su_resp>>
    /\ UNCHANGED nonSuVars

\* Lines 281-285 and the loop of line 261: the chunk's output is the model's
\* text or the deterministic fallback of the chunk; after the last chunk the
\* notes are combined.
chunk_output(chunk_text) ==
    LET out == IF chunk_text = <<>>
               THEN fallback_summary_text(su_chunks[su_idx], ChunkFallbackMaxChars)
               ELSE chunk_text
        all == Append(chunk_summaries, out)
    IN  /\ chunk_summaries' = all
        /\ IF su_idx = Len(su_chunks)
           THEN /\ su_pc' = "final_primary"
                /\ su_idx' = su_idx
                /\ su_prompt' = Strip(JoinSpace(all))
           ELSE /\ su_pc' = "chunk_primary"
                /\ su_idx' = su_idx + 1
                /\ su_prompt' = su_prompt

\* The retry test of lines 274 and 315 without the comparison of the two
\* model names.
retries_whatever_model(text, distinct) == text = <<>>

\* Lines 274 and 315: not text and SUMMARY_FALLBACK_MODEL and
\* SUMMARY_FALLBACK_MODEL != SUMMARY_MODEL.
retries_on_fallback(text, distinct) == text = <<>> /\ distinct

\* One generation call as the history keeps it: what it was issued for,
\* on which model, and how it ended.
Call(stage, idx, model, text, raised) ==
    [stage |-> stage, idx |-> idx, model |-> model, text |-> text, raised |-> raised]

\* Lines 268-274: the call of SUMMARY_MODEL for a chunk returns.
generate_chunk_primary ==
    /\ su_pc = "chunk_primary"
    /\ \E chunk_text \in GenTexts :
          /\ su_all_empty' = (su_all_empty /\ chunk_text = <<>>)
          /\ su_log' = Append(su_log, Call("chunk", su_idx, "primary", chunk_text, FALSE))
          /\ IF retries_on_fallback(chunk_text, su_distinct)
             THEN /\ su_pc' = "chunk_fallback"
                  /\ UNCHANGED <<su_idx, chunk_summaries, su_prompt>>
             ELSE chunk_output(chunk_text)
    /\ su_calls' = su_calls + 1
    /\ UNCHANGED <<su_transcript, su_key, su_distinct, su_chunk_chars, su_text,
                   su_chunks, summary, su_error, su_resp>>
    /\ UNCHANGED nonSuVars

\* Lines 275-283: the call of SUMMARY_FALLBACK_MODEL for a chunk returns.
generate_chunk_fallback ==
    /\ su_pc = "chunk_fallback"
    /\ \E chunk_text \in GenTexts :
          /\ su_all_empty' = (su_all_empty /\ chunk_text = <<>>)
          /\ su_log' = Append(su_log, Call("chunk", su_idx, "fallback", chunk_text, FALSE))
          /\ chunk_output(chunk_text)
    /\ su_calls' = su_calls + 1
    /\ UNCHANGED <<su_transcript, su_key, su_distinct, su_chunk_chars, su_text,
                   su_chunks, summary, su_error, su_resp>>
    /\ UNCHANGED nonSuVars

\* Lines 323-328: the summary is the model's text or the last resort.
summary_output(summary_text) ==
    /\ summary' = IF summary_text = <<>>
                  THEN final_fallback(su_text, su_prompt)
                  ELSE summary_text
    /\ su_pc' = "done"

\* Lines 308-315: the call of SUMMARY_MODEL for the final prompt returns.
generate_final_primary ==
    /\ su_pc = "final_primary"
    /\ \E summary_text \in GenTexts :
          /\ su_all_empty' = (su_all_empty /\ summary_text = <<>>)
          /\ su_log' = Append(su_log, Call("final", 0, "primary", summary_text, FALSE))
          /\ IF retries_on_fallback(summary_text, su_distinct)
             THEN /\ su_pc' = "final_fallback"
                  /\ summary' = summary
             ELSE summary_output(summary_text)
    /\ su_calls' = su_calls + 1
    /\ UNCHANGED <<su_transcript, su_key, su_distinct, su_chunk_chars, su_text,
                   su_chunks, su_idx, chunk_summaries, su_prompt, su_error, su_resp>>
    /\ UNCHANGED nonSuVars

\* Lines 316-328: the call of SUMMARY_FALLBACK_MODEL for the final prompt
\* returns.
generate_final_fallback ==
    /\ su_pc = "final_fallback"
    /\ \E summary_text \in GenTexts :
          /\ su_all_empty' = (su_all_empty /\ summary_text = <<>>)
          /\ su_log' = Append(su_log, Call("final", 0, "fallback", summary_text, FALSE))
          /\ summary_output(summary_text)
    /\ su_calls' = su_calls + 1
    /\ UNCHANGED <<su_transcript, su_key, su_distinct, su_chunk_chars, su_text,
                   su_chunks, su_idx, chunk_summaries, su_prompt, su_error, su_resp>>
    /\ UNCHANGED nonSuVars

\* Lines 230-244 called from lines 268, 275, 308 and 316 outside any try
\* block: a generation call that raises ends summarize_transcript with
\* that exception.
generate_summary_raises ==
    /\ su_pc \in {"chunk_primary", "chunk_fallback", "final_primary", "final_fallback"}
    /\ su_calls' = su_calls + 1
    /\ su_pc' = "raised"
    /\ su_error' = "GenerationError"
    /\ su_log' = Append(su_log,
            Call(IF su_pc \in {"chunk_primary", "chunk_fallback"} THEN "chunk" ELSE "final",
                 IF su_pc \in {"chunk_primary", "chunk_fallback"} THEN su_idx ELSE 0,
                 IF su_pc \in {"chunk_primary", "final_primary"} THEN "primary" ELSE "fallback",
                 <<>>, TRUE))
    /\ UNCHANGED <<su_transcript, su_key, su_distinct, su_chunk_chars, su_text,
                   su_chunks, su_idx, chunk_summaries, su_prompt, summary,
                   su_all_empty, su_resp>>
    /\ UNCHANGED nonSuVars

\* Lines 472-478: the /summarize handler answers 200 with the summary, or
\* 500 with the message of the exception.
summarize_respond ==
    /\ su_pc \in {"done", "raised"}
    /\ su_resp = NoSummaryResponse
    /\ su_resp' = IF su_pc = "raised"
                  THEN [status |-> 500, summary |-> <<>>, error |-> su_error]
                  ELSE [status |-> 200, summary |-> summary, error |-> ""]
    /\ UNCHANGED <<su_pc, su_transcript, su_key, su_distinct, su_chunk_chars,
                   su_text, su_chunks, su_idx, chunk_summaries, su_prompt,
                   summary, su_error, su_calls, su_all_empty, su_log>>
    /\ UNCHANGED nonSuVars

SuNext ==
    \/ summarize_begin
    \/ SpNext
    \/ summarize_chunks
    \/ generate_chunk_primary
    \/ generate_chunk_fallback
    \/ generate_final_primary
    \/ generate_final_fallback
    \/ generate_summary_raises
    \/ summarize_respond

\* ------------------------------------------------------------------------
\* generate_title (lines 342-382), _fallback_title_text (lines 331-339) and
\* the handlers that call generate_title
\* ------------------------------------------------------------------------

\* max_words of _fallback_title_text (12 at line 331), scaled down.
MaxTitleWords == 2

\* "New Recording" (lines 333, 338, 345 and 452).
DefaultTitle == <<"N", "e", "w", " ", "R", "e", "c", "o", "r", "d", "i", "n", "g">>

IsQuote(c) == c \in {"\"", "'"}

\* What _extract_text makes of a title response: no text, a plain title, a
\* quoted sentence with a double space, a title in two layers of quotes, a
\* quoted full stop, and a title that ends with a quoted word.
TitleTexts ==
    {<<>>,
     <<"t">>,
     <<"'", "t", " ", " ", "t", ".", "'">>,
     <<"\"", "'", "t", "'", "\"">>,
     <<"'", ".", "'">>,
     <<"t", " ", "\"", "t", "\"">>}

\* str.strip("\"'"): leading and trailing quote characters removed.
StripQuotes(s) ==
    LET keep == {i \in 1..Len(s) : ~IsQuote(s[i])}
    IN  IF keep = {} THEN <<>> ELSE SubSeq(s, SetMin(keep), SetMax(keep))

\* str.rstrip(".!?"): trailing sentence terminals removed.
RStripTerminals(s) ==
    LET keep == {i \in 1..Len(s) : ~IsTerminal(s[i])}
    IN  IF keep = {} THEN <<>> ELSE SubSeq(s, 1, SetMax(keep))

\* Line 381.
clean_title(title_text) ==
    RStripTerminals(StripQuotes(Strip(JoinSpace(split_words(title_text, <<>>)))))

\* _fallback_title_text returning the whole first sentence, the word limit
\* of line 339 left out.
fallback_title_text_untruncated(transcript, max_words) ==
    IF transcript = <<>> THEN DefaultTitle
    ELSE LET words == split_words(Head(re_split(Strip(transcript))), <<>>)
         IN  IF words = <<>> THEN DefaultTitle ELSE JoinSpace(words)

\* _fallback_title_text (lines 331-339).
fallback_title_text(transcript, max_words) ==
    IF transcript = <<>> THEN DefaultTitle
    ELSE LET first_sentence == Head(re_split(Strip(transcript)))
             words == split_words(first_sentence, <<>>)
         IN  IF words = <<>> THEN DefaultTitle
             ELSE JoinSpace(SubSeq(words, 1, Min2(max_words, Len(words))))

\* The cleaned title returned even when nothing is left of it.
cleaned_only(cleaned, text) == cleaned

\* Line 382: cleaned or _fallback_title_text(text).
cleaned_or_fallback(cleaned, text) ==
    IF cleaned = <<>> THEN fallback_title_text(text, MaxTitleWords) ELSE cleaned

TitleHandlers == {"/title", "/record/stop"}

NoTitleResponse == [status |-> 0, title |-> <<>>, error |-> ""]

TiOff ==
    /\ ti_pc = "off"
    /\ ti_handler = "/title"
    /\ ti_transcript = <<>>
    /\ ti_key = TRUE
    /\ ti_distinct = FALSE
    /\ title = <<>>
    /\ ti_error = ""
    /\ ti_calls = 0
    /\ ti_text = <<>>
    /\ ti_resp = NoTitleResponse

\* A POST /title with a transcript, or a POST /record/stop whose
\* transcribe_audio has returned a transcript (stripped, line 152).
TiInit ==
    /\ ti_pc = "begin"
    /\ ti_handler \in TitleHandlers
    /\ ti_transcript \in Texts
    /\ ti_handler = "/record/stop" => ti_transcript = Strip(ti_transcript)
    /\ ti_key \in BOOLEAN
    /\ ti_distinct \in BOOLEAN
    /\ title = <<>>
    /\ ti_error = ""
    /\ ti_calls = 0
    /\ ti_text = <<>>
    /\ ti_resp = NoTitleResponse

\* Lines 343-348: the default title for an empty text, the heuristic title
\* without credentials, else the call of TITLE_MODEL.
title_begin ==
    /\ ti_pc = "begin"
    /\ LET text == Strip(ti_transcript)
       IN  IF text = <<>>
           THEN /\ title' = DefaultTitle
                /\ ti_pc' = "done"
           ELSE IF ~ti_key
           THEN /\ title' = fallback_title_text(text, MaxTitleWords)
                /\ ti_pc' = "done"
           ELSE /\ title' = title
                /\ ti_pc' = "primary"
    /\ UNCHANGED <<ti_handler, ti_transcript, ti_key, ti_distinct, ti_error,
                   ti_calls, ti_text, ti_resp>>
    /\ UNCHANGED nonTiVars

\* Lines 376-382: the heuristic title if the model gave no text, else the
\* cleaned text or, if nothing is left of it, the heuristic title.
title_output(title_text) ==
    /\ title' = IF title_text = <<>>
                THEN fallback_title_text(Strip(ti_transcript), MaxTitleWords)
                ELSE cleaned_or_fallback(clean_title(title_text), Strip(ti_transcript))
    /\ ti_text' = title_text
    /\ ti_pc' = "done"

\* Lines 356-363: the call of TITLE_MODEL returns.
generate_title_primary ==
    /\ ti_pc = "primary"
    /\ \E title_text \in TitleTexts :
          IF title_text = <<>> /\ ti_distinct
          THEN /\ ti_pc' = "fallback"
               /\ title' = title
               /\ ti_text' = ti_text
          ELSE title_output(title_text)
    /\ ti_calls' = ti_calls + 1
    /\ UNCHANGED <<ti_handler, ti_transcript, ti_key, ti_distinct, ti_error, ti_resp>>
    /\ UNCHANGED nonTiVars

\* Lines 364-382: the call of TITLE_FALLBACK_MODEL returns.
generate_title_fallback ==
    /\ ti_pc = "fallback"
    /\ \E title_text \in TitleTexts : title_output(title_text)
    /\ ti_calls' = ti_calls + 1
    /\ UNCHANGED <<ti_handler, ti_transcript, ti_key, ti_distinct, ti_error, ti_resp>>
    /\ UNCHANGED nonTiVars

\* Lines 230-244 called from lines 356 and 369 outside any try block: a
\* generation call that raises ends generate_title with that exception.
generate_title_raises ==
    /\ ti_pc \in {"primary", "fallback"}
    /\ ti_calls' = ti_calls + 1
    /\ ti_pc' = "raised"
    /\ ti_error' = "GenerationError"
    /\ UNCHANGED <<ti_handler, ti_transcript, ti_key, ti_distinct, title,
                   ti_text, ti_resp>>
    /\ UNCHANGED nonTiVars

\* Lines 495-501: the /title handler answers 200 with the title, or 500 with
\* the message of the exception.
title_respond ==
    /\ ti_handler = "/title"
    /\ ti_pc \in {"done", "raised"}
    /\ ti_resp = NoTitleResponse
    /\ ti_resp' = IF ti_pc = "raised"
                  THEN [status |-> 500, title |-> <<>>, error |-> ti_error]
                  ELSE [status |-> 200, title |-> title, error |-> ""]
    /\ UNCHANGED <<ti_pc, ti_handler, ti_transcript, ti_key, ti_distinct, title,
                   ti_error, ti_calls, ti_text>>
    /\ UNCHANGED nonTiVars

\* Lines 448-455: the /record/stop handler answers 200 with the title, and
\* with "New Recording" if generate_title raised.
stop_title_respond ==
    /\ ti_handler = "/record/stop"
    /\ ti_pc \in {"done", "raised"}
    /\ ti_resp = NoTitleResponse
    /\ ti_resp' = [status |-> 200,
                   title |-> IF ti_pc = "raised" THEN DefaultTitle ELSE title,
                   error |-> ""]
    /\ UNCHANGED <<ti_pc, ti_handler, ti_transcript, ti_key, ti_distinct, title,
                   ti_error, ti_calls, ti_text>>
    /\ UNCHANGED nonTiVars

TiNext ==
    \/ title_begin
    \/ generate_title_primary
    \/ generate_title_fallback
    \/ generate_title_raises
    \/ title_respond
    \/ stop_title_respond

\* ------------------------------------------------------------------------
\* Specifications
\* ------------------------------------------------------------------------

\* The recording session: producer callback and request threads.
Init == RecInit /\ TrOff /\ SpOff /\ SuOff /\ TiOff

Next == RecNext

Spec == Init /\ [][Next]_vars

\* The recording session under fair scheduling, with fewer requests and
\* frames: a thread inside a with block runs on to its end (weak fairness),
\* and a thread blocked on audio_lock gets it if it is free again and again
\* (strong fairness). Requests and frames arrive whenever they do.
MaxLockCommands == 2
MaxLockFrames == 1

LockNext ==
    /\ Next
    /\ ncommands' <= MaxLockCommands
    /\ delivered' <= MaxLockFrames

LockFairness ==
    /\ SF_vars(audio_callback_acquire)
    /\ WF_vars(audio_callback_append)
    /\ \A t \in CmdThreads :
          /\ SF_vars(start_acquire(t))
          /\ WF_vars(start_clear(t))
          /\ SF_vars(stop_acquire(t))
          /\ WF_vars(stop_copy(t))
          /\ WF_vars(stop_clear(t))

SpecLock == Init /\ [][LockNext]_vars /\ LockFairness

\* One call of transcribe_audio.
InitTranscribe == RecInit /\ TrInit /\ SpOff /\ SuOff /\ TiOff

SpecTranscribe == InitTranscribe /\ [][TrNext]_vars

\* One call of _split_transcript.
InitSplit == RecInit /\ TrOff /\ SpInit /\ SuOff /\ TiOff

SpecSplit == InitSplit /\ [][SpNext]_vars

\* One request for an enrichment of a transcript: a summary or a title.
InitEnrich ==
    /\ RecInit
    /\ TrOff
    /\ SpOff
    /\ \/ SuInit /\ TiOff
       \/ SuOff /\ TiInit

EnrichNext == SuNext \/ TiNext

SpecEnrich == InitEnrich /\ [][EnrichNext]_vars

\* ------------------------------------------------------------------------
\* Properties of the recording session (checked under Spec)
\* ------------------------------------------------------------------------

AllIdle == \A t \in CmdThreads : pc[t] = "idle"

\* C1: after a stop() the buffer is empty and stays empty until the next
\* start(): whenever the event is clear and no request is in flight,
\* audio_chunks is empty.
C1_BufferEmptyWhileIdle ==
    (serving /\ ~recording_event /\ AllIdle) => audio_chunks = <<>>

\* C2: a stop() that arrives while the session is Idle (event clear, no
\* request in flight) and with no start() since its arrival drains nothing
\* and so answers 400 "No audio recorded".
C2_IdleStopReturnsNothing ==
    \A t \in CmdThreads :
        (pc[t] \in StopAfterDrainPcs /\ quietAtCall[t] /\ noStartSince[t])
            => chunks[t] = <<>>

\* C3: start() is idempotent: the clear step of a start() that runs while
\* the session is Recording leaves the buffer as it was.
C3_StartWhileRecordingKeepsBuffer ==
    [][\A t \in CmdThreads :
          (pc[t] = "start_clear" /\ pc'[t] = "start_set" /\ recording_event)
              => audio_chunks' = audio_chunks]_vars

\* C4: a frame is added to the buffer only while the state is Recording.
C4_AppendOnlyWhileRecording ==
    [][Len(audio_chunks') > Len(audio_chunks) => recording_event]_vars

\* C5: stop()'s state change and drain are one atomic step, and so are
\* start()'s clear and state change: while a request is between the two,
\* every step taken is its own.
C5_StateAndBufferAtomic ==
    [][\A t \in CmdThreads :
          pc[t] \in (StopDrainPcs \cup {"start_set"}) => pc'[t] # pc[t]]_vars

\* C6: no frame is delivered to more than one drain, nor twice to one: the
\* frames drained by all the stops so far are pairwise distinct.
C6_NoFrameDrainedTwice ==
    \A i, j \in 1..Len(returned) : i # j => returned[i] # returned[j]

\* C6 witness: two stops each hold a non-empty drained chunk.
C6_Witness ==
    \E t, u \in CmdThreads :
        /\ t # u
        /\ pc[t] \in StopAfterDrainPcs /\ chunks[t] # <<>>
        /\ pc[u] \in StopAfterDrainPcs /\ chunks[u] # <<>>

\* C7: a frame appended after a stop() belongs to the next session and is
\* not lost: a start() that clears the buffer of an Idle session, with no
\* other request in flight, finds it empty.
C7_IdleStartDropsNoFrame ==
    \A t \in CmdThreads :
        (/\ pc[t] = "start_clear"
         /\ ~recording_event
         /\ \A u \in CmdThreads \ {t} : pc[u] = "idle")
            => audio_chunks = <<>>

\* C8: of two stops in flight at once, with no start() in flight since
\* either arrived, at most one has drained a non-empty buffer.
C8_OneConcurrentStopWins ==
    \A t, u \in CmdThreads :
        (/\ t # u
         /\ pc[t] \in StopAfterDrainPcs /\ noStartSince[t]
         /\ pc[u] \in StopAfterDrainPcs /\ noStartSince[u])
            => (chunks[t] = <<>> \/ chunks[u] = <<>>)

\* ------------------------------------------------------------------------
\* Properties of transcribe_audio (checked under SpecTranscribe)
\* ------------------------------------------------------------------------

\* The window size the configuration asks for: RATE x max(1, chunk_seconds).
WindowSize == tr_rate * (IF tr_secs >= 1 THEN tr_secs ELSE 1)

\* ceil(n / d) for n >= 0, d > 0.
CeilDiv(n, d) == (n + d - 1) \div d

\* The i-th of the consecutive windows of WindowSize samples over tr_n samples.
ExpectedWindow(i) ==
    <<(i - 1) * WindowSize,
      IF i * WindowSize <= tr_n THEN i * WindowSize ELSE tr_n>>

\* C9: for N > 0 samples the recognition calls are, in order, the
\* ceil(N / chunk_size) consecutive non-overlapping windows of chunk_size
\* samples (the last possibly shorter): the calls issued so far are always
\* the first of these windows, and all of them once the function returns.
C9_WindowsCoverSamples ==
    tr_n > 0 =>
        /\ Len(tr_calls) <= CeilDiv(tr_n, WindowSize)
        /\ \A i \in 1..Len(tr_calls) : tr_calls[i] = ExpectedWindow(i)
        /\ tr_pc = "done" => Len(tr_calls) = CeilDiv(tr_n, WindowSize)

\* C9 witness: a returned transcription of three windows, the last shorter.
C9_Witness ==
    /\ tr_pc = "done"
    /\ Len(tr_calls) = 3
    /\ tr_calls[3][2] - tr_calls[3][1] < WindowSize

\* The texts of the windows that are non-empty, in window order.
NonEmptyTexts ==
    LET texts == [i \in 1..Len(tr_results) |-> tr_results[i].text]
    IN  SelectSeq(texts, LAMBDA x : x # <<>>)

\* The language of the first window that carried one, or None.
FirstLanguage ==
    LET carrying == {i \in 1..Len(tr_results) : tr_results[i].language # None}
    IN  IF carrying = {} THEN None ELSE tr_results[SetMin(carrying)].language

\* C10: the returned text is the non-empty window texts joined by single
\* spaces in window order and trimmed; the returned language is that of the
\* first window that carried one, None if none did.
C10_MergedTranscript ==
    (tr_pc = "done" /\ tr_n > 0) =>
        /\ tr_out.text = Strip(JoinSpace(NonEmptyTexts))
        /\ tr_out.language = FirstLanguage

\* C10 witness: three windows, one with an empty text, the first without a
\* language and the later two with different languages.
C10_Witness ==
    /\ tr_pc = "done"
    /\ Len(tr_results) = 3
    /\ \E i \in 1..3 : tr_results[i].text = <<>>
    /\ Len(NonEmptyTexts) = 2
    /\ tr_results[1].language = None
    /\ tr_results[2].language # None
    /\ tr_results[3].language \notin {None, tr_results[2].language}
\* C11: once a recognition call has failed the transcription is aborted: no
\* transcript is returned, the caller is answered 500 without any text, and
\* no further recognition call is issued.
C11_FailureAborts ==
    /\ [](tr_failed =>
            /\ tr_pc = "raised"
            /\ tr_resp.status \in {0, 500}
            /\ tr_resp.text = <<>>)
    /\ [][tr_failed => (tr_calls' = tr_calls /\ tr_pc' = "raised")]_vars

\* C11 witness: a later window failed after windows with text had succeeded,
\* and the caller has been answered 500.
C11_Witness ==
    /\ tr_failed
    /\ transcript_parts # <<>>
    /\ tr_start < tr_n
    /\ tr_resp.status = 500

\* ------------------------------------------------------------------------
\* Properties of _split_transcript (checked under SpecSplit)
\* ------------------------------------------------------------------------

RECURSIVE Concat(_)
Concat(parts) == IF parts = <<>> THEN <<>> ELSE Head(parts) \o Concat(Tail(parts))

\* Whether `text` is `longer` with some of its spaces deleted.
RECURSIVE DeletingSpacesGives(_, _)
DeletingSpacesGives(longer, text) ==
    IF longer = <<>> THEN text = <<>>
    ELSE \/ /\ text # <<>>
            /\ Head(longer) = Head(text)
            /\ DeletingSpacesGives(Tail(longer), Tail(text))
         \/ /\ IsSpace(Head(longer))
            /\ DeletingSpacesGives(Tail(longer), text)

\* The characters of a text that are not whitespace, in order.
NonSpace(text) == SelectSeq(text, LAMBDA c : ~IsSpace(c))

\* C12 as stated: the concatenation of the chunks, with the spaces the
\* chunker inserted removed, is the original text, character for character.
C12_ChunksReproduceText ==
    sp_pc = "done" => DeletingSpacesGives(Concat(sp_out), sp_text)

\* C12 as amended: the chunks are non-empty unless the text itself is empty,
\* and their concatenation holds the non-whitespace characters of the text,
\* all of them, once each and in order; whitespace is not preserved.
C12_ChunksKeepNonSpace ==
    sp_pc = "done" =>
        /\ sp_text # <<>> => \A i \in 1..Len(sp_out) : sp_out[i] # <<>>
        /\ NonSpace(Concat(sp_out)) = NonSpace(sp_text)

\* A chunk that joins two sentences: a sentence never holds a terminal
\* followed by whitespace, so only the join of line 217 or 225 puts one there.
IsPacked(chunk) ==
    \E k \in 2..Len(chunk) : IsTerminal(chunk[k - 1]) /\ IsSpace(chunk[k])

\* C12 witness: a text split into a chunk packed from two sentences and a
\* further chunk, with the whitespace between the two chunks lost.
C12_Witness ==
    /\ sp_pc = "done"
    /\ Len(sp_out) = 2
    /\ IsPacked(sp_out[1])
    /\ Len(Concat(sp_out)) < Len(sp_text)

\* C13: every chunk returned, packed from sentences or sliced from an
\* oversized one, is at most max_chars long.
C13_ChunksBounded ==
    sp_pc = "done" => \A i \in 1..Len(sp_out) : Len(sp_out[i]) <= sp_max

\* C13 witness: a sentence that did not fit has closed a chunk packed from
\* two sentences, one short of max_chars, and starts the next chunk.
C13_Witness ==
    /\ sp_pc = "loop"
    /\ sp_chunks # <<>>
    /\ IsPacked(sp_chunks[Len(sp_chunks)])
    /\ Len(sp_chunks[Len(sp_chunks)]) = sp_max - 1
    /\ current # <<>>

\* ------------------------------------------------------------------------
\* Properties of summarize_transcript, generate_title and their handlers
\* (checked under SpecEnrich)
\* ------------------------------------------------------------------------

\* C14: with credentials present, summarize_transcript of the empty
\* transcript returns the empty summary, issues no generation call and does
\* not call _split_transcript.
C14_EmptyTranscriptNoWork ==
    (su_key /\ su_transcript = <<>> /\ su_pc \notin {"off", "begin"}) =>
        /\ su_pc = "done"
        /\ summary = <<>>
        /\ su_calls = 0
        /\ sp_pc = "off"
        /\ su_resp \in {NoSummaryResponse, [status |-> 200, summary |-> <<>>, error |-> ""]}

\* C14 witness: the empty transcript has been answered with the empty summary.
C14_Witness ==
    /\ su_key
    /\ su_pc = "done"
    /\ su_transcript = <<>>
    /\ su_resp.status = 200

\* C15 as stated: with credentials present, the summary returned for a
\* non-empty transcript is non-empty, whatever the generation calls return.
C15_NonEmptyInputNonEmptySummary ==
    (su_key /\ su_pc = "done" /\ su_transcript # <<>>) => summary # <<>>

\* C15 as amended: with credentials present, the summary returned is
\* non-empty for every transcript that holds a character other than
\* whitespace, whatever the generation calls return, and empty for a
\* transcript of whitespace only.
C15_NonBlankInputNonEmptySummary ==
    (su_key /\ su_pc = "done") => (summary # <<>> <=> Strip(su_transcript) # <<>>)

\* C15 witness: a transcript of several chunks, every generation call of
\* both models returned no text, and the summary returned is not empty.
C15_Witness ==
    /\ su_pc = "done"
    /\ su_distinct
    /\ Len(su_chunks) > 1
    /\ su_calls = 2 * Len(su_chunks) + 2
    /\ su_all_empty
    /\ summary # <<>>

\* C16 as stated: the summary and the title returned are non-empty for every
\* transcript, the empty one included.
C16_SummaryAndTitleNonEmpty ==
    /\ su_pc = "done" => summary # <<>>
    /\ ti_pc = "done" => title # <<>>

\* C16 as amended: the title returned, and the title of every response that
\* carries one, is non-empty for every transcript and every outcome of the
\* generation calls; the summary of a response is empty exactly when the
\* transcript holds nothing but whitespace, the empty transcript included.
C16_TitleNonEmptySummaryUnlessBlank ==
    /\ ti_pc = "done" => title # <<>>
    /\ ti_resp.status = 200 => ti_resp.title # <<>>
    /\ su_resp.status = 200 => (su_resp.summary = <<>> <=> Strip(su_transcript) = <<>>)

\* C16 witness: both title models were called, nothing usable came back, and
\* the response carries the heuristic title cut to the word limit.
C16_Witness ==
    /\ ti_calls = 2
    /\ ti_resp.status = 200
    /\ Len(split_words(Head(re_split(Strip(ti_transcript))), <<>>)) > MaxTitleWords
    /\ ti_resp.title = fallback_title_text(Strip(ti_transcript), MaxTitleWords)

\* C17: if generation calls were issued and every one of them, for every
\* chunk and for the final prompt, returned no text, the summary is the
\* deterministic truncation of the full transcript and is non-empty.
C17_AllEmptyFallsBackOnFullText ==
    (su_pc = "done" /\ su_calls >= 1 /\ su_all_empty) =>
        /\ summary = fallback_summary_text(su_transcript, FallbackMaxChars)
        /\ summary # <<>>

\* C17 witness: several chunks, no call returned text, and the summary
\* differs from the truncation of the combined notes.
C17_Witness ==
    /\ su_pc = "done"
    /\ su_all_empty
    /\ Len(su_chunks) > 1
    /\ Len(chunk_summaries) = Len(su_chunks)
    /\ summary # fallback_summary_text(su_prompt, FallbackMaxChars)

\* C18: without credentials summarize_transcript raises its ValueError
\* before _split_transcript is called and before any generation call, for
\* every transcript; no summary is returned and the handler answers 500.
C18_MissingKeyRaisesFirst ==
    (~su_key /\ su_pc \notin {"off", "begin"}) =>
        /\ su_pc = "raised"
        /\ su_error = "ValueError"
        /\ su_calls = 0
        /\ sp_pc = "off"
        /\ summary = <<>>
        /\ su_resp.status \in {0, 500}
        /\ su_resp.summary = <<>>

\* C18 witness: without credentials the empty transcript has been answered
\* 500.
C18_Witness ==
    /\ ~su_key
    /\ su_transcript = <<>>
    /\ su_error = "ValueError"
    /\ su_resp.status = 500

\* C19: a generation call that raises during summarize_transcript is
\* absorbed: with credentials present, every answer to a transcript that
\* holds text is 200 with a non-empty summary.
C19_GenerationFailureAbsorbed ==
    (su_key /\ Strip(su_transcript) # <<>> /\ su_resp.status # 0) =>
        /\ su_resp.status = 200
        /\ su_resp.summary # <<>>

\* C20: a title generation call that raises is absorbed on both handlers:
\* the answer is 200 and carries the heuristic title.
C20_TitleFailureAbsorbed ==
    (ti_error = "GenerationError" /\ ti_resp.status # 0) =>
        /\ ti_resp.status = 200
        /\ ti_resp.title = fallback_title_text(Strip(ti_transcript), MaxTitleWords)

\* The words of the first sentence of a text: the text up to the first
\* whitespace that follows a sentence terminal, cut at whitespace.
FirstSentenceWords(text) ==
    LET stripped == Strip(text)
        ends == {i \in 2..Len(stripped) :
                     IsTerminal(stripped[i - 1]) /\ IsSpace(stripped[i])}
        first == IF ends = {} THEN stripped
                 ELSE SubSeq(stripped, 1, SetMin(ends) - 1)
    IN  split_words(first, <<>>)

\* C21: generate_title issues no generation call for an empty transcript and
\* returns the constant default title; without credentials it issues none
\* either and returns the first sentence cut to the word limit, and no error
\* is raised or answered.
C21_NoCallWithoutTextOrKey ==
    /\ (ti_pc \notin {"off", "begin"} /\ ti_transcript = <<>>) =>
           /\ ti_pc = "done"
           /\ ti_calls = 0
           /\ title = DefaultTitle
    /\ (ti_pc \notin {"off", "begin"} /\ ~ti_key) =>
           /\ ti_pc = "done"
           /\ ti_calls = 0
           /\ ti_error = ""
           /\ ti_resp.status \in {0, 200}
           /\ LET words == FirstSentenceWords(ti_transcript)
              IN  title = IF words = <<>> THEN DefaultTitle
                          ELSE JoinSpace(SubSeq(words, 1, Min2(MaxTitleWords, Len(words))))

\* C21 witness: without credentials, a transcript whose first sentence has
\* more words than the limit has been answered with a title, and no
\* generation call was issued.
C21_Witness ==
    /\ ~ti_key
    /\ ti_calls = 0
    /\ ti_resp.status = 200
    /\ Len(FirstSentenceWords(ti_transcript)) > MaxTitleWords

\* ------------------------------------------------------------------------
\* Properties of audio_lock (checked under SpecLock)
\* ------------------------------------------------------------------------

\* Whoever holds audio_lock is inside its with block, about to run a step
\* that needs nothing else, and is not asking for the lock again.
HolderInsideWithBlock ==
    /\ audio_lock = Producer => cb_pc = "cb_append"
    /\ \A t \in CmdThreads :
          audio_lock = t => pc[t] \in {"start_clear", "stop_copy", "stop_clear"}
    /\ cb_pc = "cb_append" => audio_lock = Producer
    /\ \A t \in CmdThreads :
          pc[t] \in {"start_clear", "stop_copy", "stop_clear"} => audio_lock = t

\* C22: audio_lock is never requested by the thread that holds it, its
\* holder can always run on to the release (so no state is a deadlock), and
\* under fair scheduling every callback, start and stop that requests the
\* lock acquires it and releases it.
C22_NoLockHazard ==
    /\ []HolderInsideWithBlock
    /\ (cb_pc = "cb_lock") ~> (cb_pc = "wait")
    /\ \A t \in CmdThreads :
          /\ (pc[t] = "start_lock") ~> (pc[t] = "start_set")
          /\ (pc[t] = "stop_lock") ~> (pc[t] = "stop_check")

\* C22 witness: a stop waits for audio_lock while the callback holds it.
C22_Witness ==
    /\ audio_lock = Producer
    /\ cb_pc = "cb_append"
    /\ \E t \in CmdThreads : pc[t] = "stop_lock"

\* ------------------------------------------------------------------------
\* The order of the generation calls of summarize_transcript (checked under
\* SpecEnrich)
\* ------------------------------------------------------------------------

\* The last call issued for chunk k.
LastCallFor(k) ==
    su_log[SetMax({i \in 1..Len(su_log) : su_log[i].stage = "chunk" /\ su_log[i].idx = k})]

\* A call after which the degradation of its stage is over: it returned
\* text, or it was the fallback model's, or there is no distinct fallback
\* model.
Settles(call) ==
    /\ ~call.raised
    /\ call.text # <<>> \/ call.model = "fallback" \/ ~su_distinct

\* C23: for a transcript of several chunks the calls are issued chunk by
\* chunk in chunk order; the fallback model is called only right after the
\* primary model returned no text for the same prompt, only if it is a
\* distinct model, hence at most once per chunk and once for the synthesis;
\* a chunk's output is the model's text, or the deterministic fallback of
\* that chunk only if the last call for it returned none; the synthesis is
\* called only once every chunk has its output, and degrades the same way.
C23_ChunkDegradationInOrder ==
    Len(su_chunks) > 1 =>
        /\ su_log # <<>> =>
               su_log[1] = Call("chunk", 1, "primary", su_log[1].text, su_log[1].raised)
        /\ \A i \in 1..(Len(su_log) - 1) :
               LET call == su_log[i]
                   next == su_log[i + 1]
               IN  /\ ~call.raised
                   /\ next.model = "fallback" =>
                          /\ su_distinct
                          /\ call.model = "primary"
                          /\ call.text = <<>>
                          /\ call.stage = next.stage
                          /\ call.idx = next.idx
                   /\ next.model = "primary" =>
                          /\ Settles(call)
                          /\ call.stage = "chunk"
                          /\ IF next.stage = "chunk"
                             THEN next.idx = call.idx + 1
                             ELSE call.idx = Len(su_chunks)
        /\ (\E i \in 1..Len(su_log) : su_log[i].stage = "final") =>
               Len(chunk_summaries) = Len(su_chunks)
        /\ \A k \in 1..Len(chunk_summaries) :
               /\ Settles(LastCallFor(k))
               /\ chunk_summaries[k] =
                      IF LastCallFor(k).text # <<>> THEN LastCallFor(k).text
                      ELSE fallback_summary_text(su_chunks[k], ChunkFallbackMaxChars)
        /\ su_pc = "done" =>
               /\ Settles(su_log[Len(su_log)])
               /\ su_log[Len(su_log)].stage = "final"
               /\ summary =
                      IF su_log[Len(su_log)].text # <<>> THEN su_log[Len(su_log)].text
                      ELSE fallback_summary_text(su_text, FallbackMaxChars)

\* C23 witness: three chunks; the first got its text from the primary model,
\* the second from the fallback model, the third from the deterministic
\* fallback, and the synthesis has been called.
C23_Witness ==
    /\ Len(su_chunks) = 3
    /\ su_distinct
    /\ Len(chunk_summaries) = 3
    /\ LastCallFor(1).model = "primary"
    /\ LastCallFor(2).model = "fallback"
    /\ LastCallFor(2).text # <<>>
    /\ LastCallFor(3).text = <<>>
    /\ su_log[Len(su_log)].stage = "final"

\* ------------------------------------------------------------------------
\* Oversized sentences in _split_transcript (checked under SpecSplit)
\* ------------------------------------------------------------------------

\* The consecutive pieces of max_chars characters of a sentence, the last
\* one possibly shorter, each stripped.
PiecesOf(sentence, max_chars) ==
    [k \in 1..((Len(sentence) + max_chars - 1) \div max_chars) |->
        Strip(SubSeq(sentence, (k - 1) * max_chars + 1,
                     Min2(k * max_chars, Len(sentence))))]

\* C24: a sentence longer than max_chars is never put into the pending
\* chunk; when the loop meets one, the pending chunk, if any, is emitted
\* first, then the pieces of the sentence in order, and nothing stays
\* pending. All along, the chunks emitted, the pending sentences and the
\* sentences still to visit hold the text in its order.
C24_OversizedSlicedInOrder ==
    /\ [](sp_pc = "loop" =>
            /\ \A i \in 1..Len(current) : Len(current[i]) <= sp_max
            /\ NonSpace(Concat(sp_chunks) \o Concat(current) \o Concat(sp_sentences))
                   = NonSpace(sp_text))
    /\ [][(sp_pc = "loop" /\ sp_sentences # <<>> /\ Len(Head(sp_sentences)) > sp_max) =>
            /\ sp_chunks' = (IF current # <<>>
                             THEN Append(sp_chunks, Strip(JoinSpace(current)))
                             ELSE sp_chunks)
                            \o PiecesOf(Head(sp_sentences), sp_max)
            /\ current' = <<>>
            /\ sp_sentences' = Tail(sp_sentences)]_vars

\* C24 witness: an oversized sentence met a pending chunk: the chunk was
\* emitted, then a full piece and the rest of the sentence, nothing pending.
C24_Witness ==
    /\ sp_pc = "loop"
    /\ current = <<>>
    /\ Len(sp_chunks) = 3
    /\ sp_chunks[1] # <<>>
    /\ IsTerminal(sp_chunks[1][Len(sp_chunks[1])])
    /\ SubSeq(sp_text, 1, Len(sp_chunks[1]) + 1) = sp_chunks[1] \o <<" ">>
    /\ Len(sp_chunks[2]) = sp_max
    /\ sp_chunks[3] # <<>>
    /\ sp_chunks[2] \o sp_chunks[3] = Head(re_split(SubSeq(sp_text, Len(sp_chunks[1]) + 2, Len(sp_text))))

\* ------------------------------------------------------------------------
\* The cleaning of a model's title (checked under SpecEnrich)
\* ------------------------------------------------------------------------

\* A text with its runs of whitespace made single spaces and none at its
\* ends.
Collapsed(text) == JoinSpace(split_words(text, <<>>))

\* A text without one layer of wrapping quotes: its first and last
\* characters, if both are quote characters.
WithoutOneLayer(text) ==
    IF Len(text) >= 2 /\ IsQuote(text[1]) /\ IsQuote(text[Len(text)])
    THEN SubSeq(text, 2, Len(text) - 1)
    ELSE text

\* A text without the sentence terminals at its end.
RECURSIVE WithoutTrailingTerminals(_)
WithoutTrailingTerminals(text) ==
    IF text # <<>> /\ IsTerminal(text[Len(text)])
    THEN WithoutTrailingTerminals(SubSeq(text, 1, Len(text) - 1))
    ELSE text

\* The heuristic title of the transcript.
HeuristicTitle ==
    LET words == FirstSentenceWords(ti_transcript)
    IN  IF words = <<>> THEN DefaultTitle
        ELSE JoinSpace(SubSeq(words, 1, Min2(MaxTitleWords, Len(words))))

\* C25: a title made of a model result is the result with its
\* whitespace collapsed, exactly one layer of wrapping quotes removed and
\* its trailing sentence terminals removed, or the heuristic title if
\* nothing is left.
C25_OneLayerOfQuotesRemoved ==
    (ti_pc = "done" /\ ti_text # <<>>) =>
        LET cleaned == WithoutTrailingTerminals(WithoutOneLayer(Collapsed(ti_text)))
        IN  title = IF cleaned = <<>> THEN HeuristicTitle ELSE cleaned

\* ------------------------------------------------------------------------
\* The input stream (checked under Spec)
\* ------------------------------------------------------------------------

\* C28: at most one input stream is ever created, whatever /record/start
\* requests run concurrently: the server serves only once the stream exists,
\* so no request's test of audio_stream finds it missing.
C28_AtMostOneStream ==
    /\ streams_opened <= 1
    /\ serving => (audio_stream = "started" /\ streams_opened = 1)
    /\ \A t \in CmdThreads : ~stream_missing[t]

\* C28 witness: two /record/start requests are past their test of
\* audio_stream at the same time, and one stream has been created.
C28_Witness ==
    /\ streams_opened = 1
    /\ \A t \in CmdThreads : pc[t] = "start_create"

\* ------------------------------------------------------------------------
\* The lock and the buffer around the external calls of /record/stop
\* (checked under Spec)
\* ------------------------------------------------------------------------

\* Where a /record/stop is while transcribe_audio (recognition calls) or
\* generate_title (generation calls) runs.
StopCallPcs == {"stop_transcribe", "stop_respond"}

\* C26: a thread that is in a recognition or generation call does not hold
\* audio_lock: the lock is free, or held by the callback or another request
\* inside its with block, which runs on without waiting for the call.
C26_LockFreeDuringCalls ==
    \A t \in CmdThreads :
        pc[t] \in StopCallPcs =>
            /\ audio_lock # t
            /\ audio_lock = Producer => cb_pc = "cb_append"
            /\ \A u \in CmdThreads \ {t} :
                  audio_lock = u => pc[u] \in {"start_clear", "stop_copy", "stop_clear"}

\* C26 witness: while one stop is in transcribe_audio the callback holds the
\* lock and appends a frame.
C26_Witness ==
    /\ audio_lock = Producer
    /\ cb_pc = "cb_append"
    /\ \E t \in CmdThreads : pc[t] = "stop_transcribe"

\* The frames in a sequence.
FramesOf(frames) == {frames[i] : i \in 1..Len(frames)}

\* C27: the frames a stop has drained are not in the buffer any more once
\* the stop has left its with block, whether its transcription succeeds or
\* fails; the step in which
\* transcribe_audio returns or raises touches neither the buffer nor the
\* event, and the event is set by a /record/start only.
C27_DrainedFramesStayOut ==
    /\ []((\A t \in CmdThreads : pc[t] # "stop_clear") =>
             FramesOf(returned) \cap FramesOf(audio_chunks) = {})
    /\ [][\A t \in CmdThreads :
            (pc[t] = "stop_transcribe" /\ pc'[t] # "stop_transcribe") =>
                /\ audio_chunks' = audio_chunks
                /\ recording_event' = recording_event]_vars
    /\ [][(~recording_event /\ recording_event') =>
            \E t \in CmdThreads : pc[t] = "start_set" /\ pc'[t] = "start_respond"]_vars

\* C27 witness: a stop whose transcription failed has been answered 500, and
\* the same thread's next stop drained nothing, the event being clear.
C27_Witness ==
    /\ ~recording_event
    /\ returned # <<>>
    /\ \E t \in CmdThreads :
          /\ resp[t] = "500_error"
          /\ pc[t] = "stop_check"
          /\ chunks[t] = <<>>

====
